---- MODULE Spec2Model ----
(***************************************************************************)
(* Verification model of the analytics dashboard's data pipeline:          *)
(*   - PostmarkAPI (lib/postmark.ts): client-side rate limiting, getStats  *)
(*     and getStatsWithRetry;                                              *)
(*   - ThriveCartService / FacebookAdsService fetchData: in-memory cache   *)
(*     with a 5 minute TTL;                                                *)
(*   - the Prisma-cached email stats handler (StatSnapshot table, 15       *)
(*     minute TTL);                                                        *)
(*   - the per-endpoint daily merges and summaries of the email stats      *)
(*     handlers;                                                           *)
(*   - the pure computations: rates, daily series of the sales and ads     *)
(*     services, the sales date filter, PostmarkMultiAPI.getCompleteStats, *)
(*     the dashboard's ROAS;                                               *)
(*   - the unified dashboard's fetchAllData (pages/dashboard.tsx);         *)
(*   - concurrent upserts on the StatSnapshot table and the refresh        *)
(*     handler that fills it with per-tag rows;                            *)
(*   - the /api/facebook-ads handler with the FacebookAdsService           *)
(*     singleton.                                                          *)
(* Times are milliseconds, as returned by Date.now().                      *)
(***************************************************************************)
EXTENDS Integers, Sequences, FiniteSets, TLC

VARIABLES
    now,              \* Date.now()
    ticks,            \* history: number of clock steps of the cache models
    \* ---- PostmarkAPI client (lib/postmark.ts) ----
    rateLimitState,   \* [requests, windowStart, backoffUntil]; backoffUntil = 0 is "undefined"
    maxRequestsPerWindow, \* POSTMARK_RATE_LIMIT_REQUESTS, read at construction
    pc,               \* position of each getStatsWithRetry call
    retries,          \* the retries argument of the current recursion level
    wakeAt,           \* earliest time the pending setTimeout may fire
    result,           \* value a finished call resolved / rejected with
    invocations,      \* history: number of getStats invocations of the call
    waits,            \* history: backoffTime of every setTimeout of the call
    errLog,           \* history: error thrown by every failed getStats invocation
    httpLog,          \* history: outcomes the upstream gave to the call's HTTP requests
    httpSent,         \* history: number of HTTP requests issued by the client
    callsStarted,     \* history: number of getStatsWithRetry calls started
    last429At,        \* history: time the latest 429 was handled (-1: never)
    idled,            \* TRUE when time has passed since the last call finished
    \* ---- ThriveCartService / FacebookAdsService (lib/thrivecart.ts, lib/facebook-ads.ts) ----
    service,          \* which singleton is under study: "thrivecart" or "facebook"
    cache,            \* its cache: cache[cacheKey] is NoEntry or [data, timestamp]
    fcall,            \* fetchData calls: position, arguments, locals, returned value
    fcallsStarted,    \* history: number of fetchData calls started
    \* ---- Prisma-cached email stats handler (pages/api/stats.ts with StatSnapshot) ----
    snapshots,        \* StatSnapshot table: snapshots[tag][date] is NoSnapshot or a row
    resp,             \* the request last handled and the response it got
    emailRequests,    \* history: number of requests handled
    \* ---- daily merges of the multi-endpoint email stats handlers ----
    series,           \* series[endpoint][date]: the day's count, or Absent
    merged,           \* the handler that merged last and the response it built
    \* ---- pure computations of the pipeline ----
    calc,             \* the computation applied last: its name, inputs and output
    \* ---- unified dashboard (pages/dashboard.tsx) ----
    dash,             \* its state: stats, error, and the outcomes of the last load
    \* ---- StatSnapshot table under concurrent upserts ----
    upserts,          \* the table's rows and the position of every upsert in progress
    \* ---- /api/facebook-ads handler with the FacebookAdsService singleton ----
    ads               \* the singleton's token and cache, and the last response

pmVars == <<rateLimitState, maxRequestsPerWindow, pc, retries, wakeAt, result,
            invocations, waits, errLog, httpLog, httpSent, callsStarted, last429At,
            idled>>

cacheVars == <<service, cache, fcall, fcallsStarted>>

emailVars == <<snapshots, resp, emailRequests>>

mergeVars == <<series, merged>>

appVars == <<dash, upserts, ads>>

vars == <<now, ticks, pmVars, cacheVars, emailVars, mergeVars, calc, appVars>>

----------------------------------------------------------------------------
(* Bounds of the model *)
MaxCalls == 2          \* getStatsWithRetry calls started on one client
NumCalls == 2          \* call slots (concurrent getStatsWithRetry calls)
MaxFetchCalls == 2     \* fetchData calls started
NumFetchers == 2       \* concurrent fetchData calls
MaxTicks == 2          \* clock steps of the email cache model
MaxCacheTicks == 1     \* clock steps of the in-memory cache model
MaxEmailRequests == 3  \* requests the cached stats handler serves
NumDates == 2          \* calendar dates
MaxCount == 1          \* largest per-payload counter value
MaxRows == 2           \* rows of a CSV sheet or of an insights response
MaxEvents == 3         \* largest event total the sales rates are applied to
NumWriters == 2        \* concurrent upserts on the StatSnapshot table
MaxUpserts == 3        \* upserts started

(* Program constants *)
windowMs == 60000
maxRetries == 3
baseBackoffMs == 1000
CACHE_DURATION == 300000
EMAIL_TTL == 900000
DefaultMaxRequests == 500
LowMaxRequests == 2    \* a small POSTMARK_RATE_LIMIT_REQUESTS setting
LatencyMs == 50        \* round-trip time of one HTTP request

Calls == 1..NumCalls
IdleSteps == {1000, windowMs}

Min(a, b) == IF a < b THEN a ELSE b
Max(a, b) == IF a > b THEN a ELSE b
RECURSIVE Pow2(_)
Pow2(n) == IF n <= 0 THEN 1 ELSE 2 * Pow2(n - 1)
CeilDiv(a, b) == (a + b - 1) \div b

\* A JavaScript number as a fraction num/den; den = 0 stands for the two
\* non-finite results of a division: 0/0 is NaN and x/0 (x > 0) is Infinity.
Rat(n, d) == [num |-> n, den |-> d]
NaN == Rat(0, 0)
Infinity == Rat(1, 0)
IsFinite(q) == q.den # 0
\* a / b for non-negative integers a and b
Div(a, b) == IF b = 0 THEN (IF a = 0 THEN NaN ELSE Infinity) ELSE Rat(a, b)
\* Math.round(q * k) / 100 for a non-negative q: half-way cases round up,
\* NaN and Infinity pass through.  The rounding error of the double
\* division is not represented.
RoundedHundredths(q, k) ==
    IF IsFinite(q) THEN Rat((2 * q.num * k + q.den) \div (2 * q.den), 100) ELSE q
NoCalc == [op |-> "none", in |-> <<>>, out |-> <<>>]

RECURSIVE HasDigit5(_)
\* String(n).includes('5') for a non-negative integer n
HasDigit5(n) == IF n <= 0 THEN FALSE
                ELSE IF n % 10 = 5 THEN TRUE ELSE HasDigit5(n \div 10)

----------------------------------------------------------------------------
(* Errors.  kind names the message template, n the number printed in it:   *)
(*   RateLimited   "Rate limited: <statusText>"                            *)
(*   BackoffWait   "Rate limited, wait <n> seconds"                        *)
(*   LimitExceeded "Rate limit exceeded, wait <n> seconds"                 *)
(*   ApiError      "Postmark API error: <n> <statusText>"                  *)
(*   SchemaError   ZodError whose issue path is Days[<n>]                  *)
Err(k, n) == [kind |-> k, n |-> n]
NoError == Err("none", 0)

\* error.message.includes('Rate limit')
isRateLimit(e) == e.kind \in {"RateLimited", "BackoffWait", "LimitExceeded"}
\* error.message.includes('5')
isServerError(e) == e.kind # "RateLimited" /\ HasDigit5(e.n)

\* What the upstream can answer to one HTTP request: a status and, for 200,
\* the shape of the body (valid, aggregate without Days, Days with a
\* malformed entry at index badIdx).
Outcome(s, b, i) == [status |-> s, body |-> b, badIdx |-> i]
Outcomes == { Outcome(200, "valid", 0), Outcome(200, "noDays", 0),
              Outcome(200, "badDays", 0), Outcome(200, "badDays", 5),
              Outcome(429, "error", 0), Outcome(500, "error", 0),
              Outcome(404, "error", 0), Outcome(415, "error", 0) }

----------------------------------------------------------------------------
(* PostmarkAPI *)

\* Mutant of checkRateLimit: the backoff period is not consulted.
checkRateLimit_NoBackoff(st, t, maxReq) ==
    LET st1 == IF t - st.windowStart >= windowMs
               THEN [st EXCEPT !.requests = 0, !.windowStart = t]
               ELSE st
    IN IF st1.requests >= maxReq
       THEN [throws |-> TRUE, state |-> st1,
             error |-> Err("LimitExceeded",
                           CeilDiv(windowMs - (t - st1.windowStart), 1000))]
       ELSE [throws |-> FALSE, state |-> st1, error |-> NoError]

checkRateLimit(st, t, maxReq) ==
    IF st.backoffUntil # 0 /\ t < st.backoffUntil
    THEN [throws |-> TRUE, state |-> st,
          error |-> Err("BackoffWait", CeilDiv(st.backoffUntil - t, 1000))]
    ELSE LET st1 == IF t - st.windowStart >= windowMs
                    THEN [st EXCEPT !.requests = 0, !.windowStart = t]
                    ELSE st
         IN IF st1.requests >= maxReq
            THEN [throws |-> TRUE, state |-> st1,
                  error |-> Err("LimitExceeded",
                                CeilDiv(windowMs - (t - st1.windowStart), 1000))]
            ELSE [throws |-> FALSE, state |-> st1, error |-> NoError]

updateRateLimitState(st) == [st EXCEPT !.requests = @ + 1]

handleRateLimit(st, t) ==
    [st EXCEPT !.backoffUntil = t + baseBackoffMs * Pow2(Min(st.requests, 5))]

\* Mutant of shouldRetry: one retry too many.
shouldRetry_OffByOne(r, e) == r <= maxRetries /\ (isRateLimit(e) \/ isServerError(e))

\* The retry condition of getStatsWithRetry's catch block.
shouldRetry(r, e) == r < maxRetries /\ (isRateLimit(e) \/ isServerError(e))

\* The delay of getStatsWithRetry's catch block.
backoffTime(r) == baseBackoffMs * Pow2(r)

\* The catch block of getStatsWithRetry for call c after getStats threw e.
RetryOrThrow(c, e) ==
    /\ errLog' = [errLog EXCEPT ![c] = Append(@, e)]
    /\ IF shouldRetry(retries[c], e)
       THEN /\ pc' = [pc EXCEPT ![c] = "sleeping"]
            /\ wakeAt' = [wakeAt EXCEPT ![c] = now' + backoffTime(retries[c])]
            /\ waits' = [waits EXCEPT ![c] = Append(@, backoffTime(retries[c]))]
            /\ UNCHANGED result
       ELSE /\ pc' = [pc EXCEPT ![c] = "rejected"]
            /\ result' = [result EXCEPT ![c] = e]
            /\ UNCHANGED <<wakeAt, waits>>

\* A caller invokes getStatsWithRetry(from, to, tag) with retries = 0.
StartCall(c) ==
    /\ pc[c] \in {"idle", "resolved", "rejected"}
    /\ callsStarted < MaxCalls
    /\ callsStarted' = callsStarted + 1
    /\ pc' = [pc EXCEPT ![c] = "calling"]
    /\ retries' = [retries EXCEPT ![c] = 0]
    /\ invocations' = [invocations EXCEPT ![c] = 0]
    /\ waits' = [waits EXCEPT ![c] = <<>>]
    /\ errLog' = [errLog EXCEPT ![c] = <<>>]
    /\ httpLog' = [httpLog EXCEPT ![c] = <<>>]
    /\ result' = [result EXCEPT ![c] = NoError]
    /\ wakeAt' = [wakeAt EXCEPT ![c] = 0]
    /\ idled' = FALSE
    /\ UNCHANGED <<now, rateLimitState, maxRequestsPerWindow, httpSent, last429At>>

\* getStats up to its fetch: checkRateLimit, then the request is issued.
GetStatsCall(c) ==
    /\ pc[c] = "calling"
    /\ invocations' = [invocations EXCEPT ![c] = @ + 1]
    /\ LET r == checkRateLimit(rateLimitState, now, maxRequestsPerWindow)
       IN /\ rateLimitState' = r.state
          /\ now' = now
          /\ IF r.throws
             THEN /\ RetryOrThrow(c, r.error)
                  /\ UNCHANGED httpSent
             ELSE /\ pc' = [pc EXCEPT ![c] = "fetching"]
                  /\ httpSent' = httpSent + 1
                  /\ UNCHANGED <<wakeAt, waits, errLog, result>>
    /\ UNCHANGED <<maxRequestsPerWindow, retries, httpLog, callsStarted, last429At, idled>>

\* getStats from the arrival of the response on.
GetStatsResponse(c, o) ==
    /\ pc[c] = "fetching"
    /\ now' = now + LatencyMs
    /\ httpLog' = [httpLog EXCEPT ![c] = Append(@, o)]
    /\ LET st1 == updateRateLimitState(rateLimitState)
       IN IF o.status = 429
          THEN /\ rateLimitState' = handleRateLimit(st1, now')
               /\ last429At' = now'
               /\ RetryOrThrow(c, Err("RateLimited", 0))
          ELSE /\ rateLimitState' = st1
               /\ UNCHANGED last429At
               /\ IF o.status # 200
                  THEN RetryOrThrow(c, Err("ApiError", o.status))
                  ELSE IF o.body = "badDays"
                  THEN RetryOrThrow(c, Err("SchemaError", o.badIdx))
                  ELSE /\ pc' = [pc EXCEPT ![c] = "resolved"]
                       /\ result' = [result EXCEPT ![c] = Err("ok", 0)]
                       /\ UNCHANGED <<wakeAt, waits, errLog>>
    /\ UNCHANGED <<maxRequestsPerWindow, retries, invocations, httpSent, callsStarted, idled>>

\* The setTimeout of the catch block fires and getStatsWithRetry recurses.
TimerFires(c) ==
    /\ pc[c] = "sleeping"
    /\ now' = Max(now, wakeAt[c])
    /\ retries' = [retries EXCEPT ![c] = @ + 1]
    /\ pc' = [pc EXCEPT ![c] = "calling"]
    /\ UNCHANGED <<rateLimitState, maxRequestsPerWindow, wakeAt, result, invocations,
                   waits, errLog, httpLog, httpSent, callsStarted, last429At, idled>>

\* Time passes while no call is in progress.
Idle(d) ==
    /\ \A c \in Calls : pc[c] \in {"resolved", "rejected"} \/ (pc[c] = "idle" /\ callsStarted > 0)
    /\ callsStarted < MaxCalls
    /\ ~idled
    /\ now' = now + d
    /\ idled' = TRUE
    /\ UNCHANGED <<rateLimitState, maxRequestsPerWindow, pc, retries, wakeAt, result,
                   invocations, waits, errLog, httpLog, httpSent, callsStarted,
                   last429At>>

----------------------------------------------------------------------------
(* ThriveCartService.fetchData and FacebookAdsService.fetchData *)

Services == {"thrivecart", "facebook"}
CacheKeys == {"all", "r1"}     \* 'all' or `${from}-${to}` of one date range
FCalls == 1..NumFetchers
NoStats == [empty |-> TRUE]           \* no stats value
NoEntry == [data |-> NoStats, timestamp |-> -1]
HasEntry(e) == e.timestamp >= 0     \* the Map holds a value for the key

\* What a successful upstream fetch delivers, after parsing and date
\* filtering: event counts of the CSV, or the spend of the insights rows.
EventCounts == {0, 1}
Payloads(svc) ==
    IF svc = "thrivecart"
    THEN [purchases : EventCounts, abandoned : EventCounts]
    ELSE [spend : EventCounts]

\* totalAbandoned > 0 ? (totalPurchases / (totalPurchases + totalAbandoned)) * 100 : 100
conversionRate(totalPurchases, totalAbandoned) ==
    IF totalAbandoned > 0
    THEN Rat(totalPurchases * 100, totalPurchases + totalAbandoned)
    ELSE Rat(100, 1)

\* totalPurchases > 0 ? (totalUpsells / totalPurchases) * 100 : 0
upsellConversionRate(totalUpsells, totalPurchases) ==
    IF totalPurchases > 0 THEN Rat(totalUpsells * 100, totalPurchases) ELSE Rat(0, 1)

\* ThriveCartService.calculateStats / FacebookAdsService.calculateStats,
\* restricted to the totals.
calculateStats(svc, p) ==
    IF svc = "thrivecart"
    THEN [totalPurchases |-> p.purchases,
          totalAbandoned |-> p.abandoned,
          conversionRate |-> conversionRate(p.purchases, p.abandoned)]
    ELSE [totalSpend |-> p.spend]

getEmptyStats(svc) ==
    IF svc = "thrivecart"
    THEN [totalPurchases |-> 0, totalAbandoned |-> 0, conversionRate |-> Rat(0, 1)]
    ELSE [totalSpend |-> 0]

\* Mutant of servesFromCache: the forceRefresh argument is ignored.
servesFromCache_IgnoresForce(forceRefresh, cached, t) ==
    HasEntry(cached) /\ (t - cached.timestamp) < CACHE_DURATION

\* The early-return condition of fetchData.
servesFromCache(forceRefresh, cached, t) ==
    ~forceRefresh /\ HasEntry(cached) /\ (t - cached.timestamp) < CACHE_DURATION

IdleFetch == [pc |-> "idle", key |-> "all", forceRefresh |-> FALSE,
              now |-> 0, cached |-> NoEntry, overFresh |-> FALSE,
              path |-> "none", result |-> NoStats]

\* The call returned: its locals now and cached go out of scope.
Returned(call, path, data) ==
    [call EXCEPT !.pc = "done", !.now = 0, !.cached = NoEntry,
                 !.path = path, !.result = data]

\* fetchData(forceRefresh, dateRange) up to its first await: the cache
\* lookup and either the early return or the upstream request.
FetchDataStart(c, forceRefresh, key) ==
    /\ fcall[c].pc \in {"idle", "done"}
    /\ \A b \in FCalls : b < c => fcall[b].pc = "fetching"   \* lowest free slot
    /\ fcallsStarted < MaxFetchCalls
    /\ fcallsStarted' = fcallsStarted + 1
    /\ LET cached == cache[key]
           call == [pc |-> "fetching", key |-> key,
                    forceRefresh |-> forceRefresh, now |-> now,
                    cached |-> cached,
                    \* history: the call started over a fresh entry of its key
                    overFresh |-> HasEntry(cached) /\ (now - cached.timestamp) < CACHE_DURATION,
                    path |-> "none", result |-> NoStats]
       IN IF servesFromCache(forceRefresh, cached, now)
          THEN fcall' = [fcall EXCEPT ![c] = Returned(call, "fresh", cached.data)]
          ELSE fcall' = [fcall EXCEPT ![c] = call]
    /\ UNCHANGED <<now, ticks, service, cache>>

\* The upstream answered and the payload was parsed: the try block's tail.
FetchDataSuccess(c, p) ==
    /\ fcall[c].pc = "fetching"
    /\ p \in Payloads(service)
    /\ LET stats == calculateStats(service, p)
       IN /\ cache' = [cache EXCEPT ![fcall[c].key] =
                          [data |-> stats, timestamp |-> fcall[c].now]]
          /\ fcall' = [fcall EXCEPT ![c] = Returned(fcall[c], "fetched", stats)]
    /\ UNCHANGED <<now, ticks, service, fcallsStarted>>

\* The upstream request failed (rejected fetch, non-OK status, no ad
\* account): the catch block.
FetchDataFailure(c) ==
    /\ fcall[c].pc = "fetching"
    /\ IF HasEntry(fcall[c].cached)
       THEN fcall' = [fcall EXCEPT ![c] = Returned(fcall[c], "stale", fcall[c].cached.data)]
       ELSE fcall' = [fcall EXCEPT ![c] = Returned(fcall[c], "empty", getEmptyStats(service))]
    /\ UNCHANGED <<now, ticks, service, cache, fcallsStarted>>

CacheTicks == {CACHE_DURATION - 1, CACHE_DURATION}

\* Time passes.
CacheTick(d) ==
    /\ ticks < MaxCacheTicks
    /\ ticks' = ticks + 1
    /\ now' = now + d
    /\ UNCHANGED cacheVars

CacheModelInit ==
    /\ cache = [k \in CacheKeys |-> NoEntry]
    /\ fcall = [c \in FCalls |-> IdleFetch]
    /\ fcallsStarted = 0

----------------------------------------------------------------------------
(* The Prisma-cached email stats handler *)

Tags == {"overall", "promo"}
Dates == 1..NumDates
NoSnapshot == [updatedAt |-> -1, sent |-> 0]
Exists(row) == row.updatedAt >= 0
DateRanges == {r \in [from : Dates, to : Dates] : r.from <= r.to}
InRange(d, r) == r.from <= d /\ d <= r.to

\* What postmark.getStatsWithRetry(from, to, tag) can settle with: one of the
\* errors of the client, or a response whose Days carry `sent` on `days`.
FetchError(e) == [ok |-> FALSE, error |-> e, days |-> {}, sent |-> 0]
FetchOk(D, v) == [ok |-> TRUE, error |-> NoError, days |-> D, sent |-> v]
FetchResults(r) ==
    {FetchError(Err("RateLimited", 0)), FetchError(Err("BackoffWait", 1)),
     FetchError(Err("ApiError", 500)), FetchError(Err("ApiError", 404))}
    \cup {FetchOk(D, v) : D \in SUBSET {d \in Dates : InRange(d, r)}, v \in 1..MaxCount}

\* prisma.statSnapshot.findMany({where: {date: {gte, lte}, updatedAt}}) as the
\* set of (tag, date) keys of the rows found; threshold = -1 is "undefined".
findMany(table, r, threshold) ==
    {k \in Tags \X Dates :
        /\ Exists(table[k[1]][k[2]])
        /\ InRange(k[2], r)
        /\ (threshold = -1 \/ table[k[1]][k[2]].updatedAt >= threshold)}

RECURSIVE SumSent(_, _)
SumSent(table, keys) ==
    IF keys = {} THEN 0
    ELSE LET k == CHOOSE x \in keys : TRUE
         IN table[k[1]][k[2]].sent + SumSent(table, keys \ {k})

\* The "Group by date" block: one row per date of finalData, ascending.
RECURSIVE DailyFrom(_, _, _)
DailyFrom(table, keys, d) ==
    IF d > NumDates THEN <<>>
    ELSE LET onDate == {k \in keys : k[2] = d}
         IN (IF onDate = {} THEN <<>>
             ELSE <<[date |-> d, sent |-> SumSent(table, onDate)]>>)
            \o DailyFrom(table, keys, d + 1)

\* The "Update cache" block: one upsert per day of every fulfilled tag fetch.
Upserted(table, fetched, t) ==
    [tag \in Tags |-> [d \in Dates |->
        IF tag \in DOMAIN fetched /\ fetched[tag].ok /\ d \in fetched[tag].days
        THEN [updatedAt |-> t, sent |-> fetched[tag].sent]
        ELSE table[tag][d]]]

NoResponse == [status |-> 0, refresh |-> FALSE, range |-> [from |-> 1, to |-> 1],
               fetched |-> FALSE, error |-> NoError, sent |-> 0, daily |-> <<>>]

\* The 200 response built from the rows of the range.
OkResponse(table, refresh, r, fetched, e) ==
    LET finalData == findMany(table, r, -1)
    IN [status |-> 200, refresh |-> refresh, range |-> r, fetched |-> fetched,
        error |-> e, sent |-> SumSent(table, finalData),
        daily |-> DailyFrom(table, finalData, 1)]

ErrorResponse(code, refresh, r, e) ==
    [status |-> code, refresh |-> refresh, range |-> r, fetched |-> TRUE,
     error |-> e, sent |-> 0, daily |-> <<>>]

\* GET /api/stats?from&to&refresh.  overall and tagged are what the upstream
\* fetches settle with, should the handler start them.
CachedStatsHandler(refresh, r, overall, tagged) ==
    /\ emailRequests < MaxEmailRequests
    /\ emailRequests' = emailRequests + 1
    /\ LET cacheThreshold == now - EMAIL_TTL
           needsRefresh == refresh
           cachedData == findMany(snapshots, r,
                                  IF needsRefresh THEN -1 ELSE cacheThreshold)
           shouldFetchFresh ==
               \/ needsRefresh
               \/ cachedData = {}
               \/ \E k \in cachedData : snapshots[k[1]][k[2]].updatedAt < cacheThreshold
           existingTags == {t \in Tags : \E d \in Dates : Exists(snapshots[t][d])}
           tags == {"overall"} \cup (existingTags \ {"overall"})
           fetched == [t \in tags |-> IF t = "overall" THEN overall ELSE tagged]
       IN IF ~shouldFetchFresh
          THEN /\ resp' = OkResponse(snapshots, refresh, r, FALSE, NoError)
               /\ UNCHANGED snapshots
          ELSE IF overall.ok
          THEN /\ snapshots' = Upserted(snapshots, fetched, now)
               /\ resp' = OkResponse(snapshots', refresh, r, TRUE, NoError)
          ELSE /\ UNCHANGED snapshots
               /\ IF isRateLimit(overall.error)
                  THEN resp' = ErrorResponse(429, refresh, r, overall.error)
                  ELSE IF cachedData = {}
                  THEN resp' = ErrorResponse(500, refresh, r, overall.error)
                  ELSE resp' = OkResponse(snapshots, refresh, r, TRUE, overall.error)
    /\ UNCHANGED <<now, ticks>>

\* POST /api/refresh with body {from, to, tags}: the tags are fetched one
\* after another, 'overall' first, and the days of every fetched tag are
\* upserted; a rate-limit error ends the loop, any other error skips the tag.
\* tags = {} stands for a body without tags.
RefreshHandler(tags, overall, tagged) ==
    LET existingTags == {t \in Tags : \E d \in Dates : Exists(snapshots[t][d])}
        tagsToUpdate == IF tags # {} THEN tags
                        ELSE {"overall"} \cup (existingTags \ {"overall"})
        stopped == "overall" \in tagsToUpdate /\ ~overall.ok /\ isRateLimit(overall.error)
        fetched == [t \in (IF stopped THEN {} ELSE tagsToUpdate) |->
                       IF t = "overall" THEN overall ELSE tagged]
    IN /\ snapshots' = Upserted(snapshots, fetched, now)
       /\ snapshots' # snapshots
       /\ UNCHANGED <<now, ticks, resp, emailRequests>>

EmailTicks == {1, EMAIL_TTL - 1}

\* Time passes.
EmailTick(d) ==
    /\ ticks < MaxTicks
    /\ ticks' = ticks + 1
    /\ now' = now + d
    /\ UNCHANGED emailVars

EmailInit ==
    /\ snapshots = [t \in Tags |-> [d \in Dates |-> NoSnapshot]]
    /\ resp = NoResponse
    /\ emailRequests = 0

----------------------------------------------------------------------------
(* The daily merges of the multi-endpoint email stats handlers:            *)
(*   "stats"  - /stats/outbound/{sends,bounces,spam,opens,clicks} plus the  *)
(*              suppression dump (pages/api/refresh.ts, second handler);    *)
(*   "hybrid" - overview plus sends, opens, clicks, bounces.                *)

Endpoints == {"sends", "bounces", "spam", "opens", "clicks"}
Absent == -1

\* The Days array of an endpoint: its dates in ascending order, as the
\* upstream lists them.
RECURSIVE DaysFrom(_, _)
DaysFrom(f, d) ==
    IF d > NumDates THEN <<>>
    ELSE (IF f[d] = Absent THEN <<>> ELSE <<[Date |-> d, n |-> f[d]]>>)
         \o DaysFrom(f, d + 1)
Days(f) == DaysFrom(f, 1)

ZeroRow(d) == [date |-> d, sent |-> 0, delivered |-> 0, opened |-> 0, clicked |-> 0,
               bounced |-> 0, spam |-> 0, unsubscribed |-> 0]

\* dailyMap is a Map in insertion order: a sequence of rows with distinct dates.
MapIndex(m, d) == IF \E i \in 1..Len(m) : m[i].date = d
                  THEN CHOOSE i \in 1..Len(m) : m[i].date = d
                  ELSE 0
MapSet(m, row) == LET i == MapIndex(m, row.date)
                  IN IF i = 0 THEN Append(m, row) ELSE [m EXCEPT ![i] = row]

SetField(row, field, v) ==
    CASE field = "sent"    -> [row EXCEPT !.sent = v]
      [] field = "bounced" -> [row EXCEPT !.bounced = v]
      [] field = "spam"    -> [row EXCEPT !.spam = v]
      [] field = "opened"  -> [row EXCEPT !.opened = v]
      [] field = "clicked" -> [row EXCEPT !.clicked = v]

\* sendsData.Days.forEach(day => dailyMap.set(day.Date, {sent: day.Sent || 0, ...zeros}))
RECURSIVE InitFromSends(_, _)
InitFromSends(m, days) ==
    IF days = <<>> THEN m
    ELSE InitFromSends(MapSet(m, SetField(ZeroRow(Head(days).Date), "sent", Head(days).n)),
                       Tail(days))

\* Days.forEach(day => { existing = dailyMap.get(day.Date) || zeros;
\*                       existing[field] = ...; dailyMap.set(day.Date, existing) })
RECURSIVE AddOrCreate(_, _, _)
AddOrCreate(m, days, field) ==
    IF days = <<>> THEN m
    ELSE LET d == Head(days).Date
             i == MapIndex(m, d)
             existing == IF i = 0 THEN ZeroRow(d) ELSE m[i]
         IN AddOrCreate(MapSet(m, SetField(existing, field, Head(days).n)),
                        Tail(days), field)

\* Days.forEach(day => { existing = dailyMap.get(day.Date);
\*                       if (existing) existing[field] = ... })
RECURSIVE AddIfExisting(_, _, _)
AddIfExisting(m, days, field) ==
    IF days = <<>> THEN m
    ELSE LET i == MapIndex(m, Head(days).Date)
         IN AddIfExisting(IF i = 0 THEN m
                          ELSE [m EXCEPT ![i] = SetField(m[i], field, Head(days).n)],
                          Tail(days), field)

\* dailyMap.forEach(day => day.delivered = Math.max(0, day.sent - day.bounced))
WithDelivered(m) ==
    [i \in 1..Len(m) |-> [m[i] EXCEPT !.delivered = Max(0, m[i].sent - m[i].bounced)]]

\* Array.prototype.sort by date: a stable insertion sort.
RECURSIVE InsertByDate(_, _)
InsertByDate(sorted, row) ==
    IF sorted = <<>> THEN <<row>>
    ELSE IF row.date < Head(sorted).date THEN <<row>> \o sorted
    ELSE <<Head(sorted)>> \o InsertByDate(Tail(sorted), row)
RECURSIVE SortByDate(_)
SortByDate(m) ==
    IF m = <<>> THEN <<>>
    ELSE InsertByDate(SortByDate(SubSeq(m, 1, Len(m) - 1)), m[Len(m)])

\* The suppression loop: every ManualSuppression rewrites the unsubscribed
\* count of the latest day; the last rewrite stands.
WithUnsubscribed(m, manual) ==
    IF manual = 0 \/ m = <<>> THEN m
    ELSE LET latest == CHOOSE i \in 1..Len(m) : \A j \in 1..Len(m) : m[j].date <= m[i].date
         IN [m EXCEPT ![latest].unsubscribed = manual \div Len(m)]

\* The daily series of the "stats" handler.
StatsDaily(s, manual) ==
    LET m1 == InitFromSends(<<>>, Days(s["sends"]))
        m2 == AddOrCreate(m1, Days(s["bounces"]), "bounced")
        m3 == AddOrCreate(m2, Days(s["spam"]), "spam")
        m4 == AddOrCreate(m3, Days(s["opens"]), "opened")
        m5 == AddOrCreate(m4, Days(s["clicks"]), "clicked")
    IN SortByDate(WithDelivered(WithUnsubscribed(m5, manual)))

\* The daily series of the "hybrid" handler.
HybridDaily(s) ==
    LET m1 == InitFromSends(<<>>, Days(s["sends"]))
        m2 == AddIfExisting(m1, Days(s["opens"]), "opened")
        m3 == AddIfExisting(m2, Days(s["clicks"]), "clicked")
        m4 == AddIfExisting(m3, Days(s["bounces"]), "bounced")
    IN SortByDate(WithDelivered(m4))

\* One merge step of the "stats" handler: the block that folds the Days of
\* endpoint ep into dailyMap.
FieldOf(ep) == CASE ep = "sends"   -> "sent"
                 [] ep = "bounces" -> "bounced"
                 [] ep = "spam"    -> "spam"
                 [] ep = "opens"   -> "opened"
                 [] ep = "clicks"  -> "clicked"
MergeStep(m, s, ep) ==
    IF ep = "sends" THEN InitFromSends(m, Days(s[ep]))
    ELSE AddOrCreate(m, Days(s[ep]), FieldOf(ep))

\* The merge steps applied to an empty dailyMap in the given order.
RECURSIVE FoldSteps(_, _, _)
FoldSteps(m, s, order) ==
    IF order = <<>> THEN m
    ELSE FoldSteps(MergeStep(m, s, Head(order)), s, Tail(order))

\* Mutant of calculateRate: the denominator is not tested.
calculateRate_Unguarded(numerator, denominator) ==
    RoundedHundredths(Div(numerator, denominator), 10000)

\* function calculateRate of the "stats" handler, in hundredths of a percent
\* point over 100: denominator > 0 ? Math.round((n / d) * 100 * 100) / 100 : 0
calculateRate(numerator, denominator) ==
    IF denominator > 0
    THEN RoundedHundredths(Div(numerator, denominator), 10000)
    ELSE Rat(0, 100)

\* function calculateRate of the "hybrid" and "overview" handlers:
\* if (denominator === 0) return 0; Math.round((n / d) * 10000) / 100
calculateRateOverview(numerator, denominator) ==
    IF denominator = 0 THEN Rat(0, 100)
    ELSE RoundedHundredths(Div(numerator, denominator), 10000)

Counters == {"sent", "delivered", "opened", "clicked", "bounced", "spam", "unsubscribed"}
Counter(row, field) ==
    CASE field = "sent"         -> row.sent
      [] field = "delivered"    -> row.delivered
      [] field = "opened"       -> row.opened
      [] field = "clicked"      -> row.clicked
      [] field = "bounced"      -> row.bounced
      [] field = "spam"         -> row.spam
      [] field = "unsubscribed" -> row.unsubscribed

\* daily.reduce((acc, day) => acc[field] += day[field], initial)
RECURSIVE SumField(_, _, _)
SumField(rows, field, initial) ==
    IF rows = <<>> THEN initial
    ELSE SumField(Tail(rows), field, initial + Counter(Head(rows), field))

\* The totals and the summary of the "stats" handler; the accumulator's
\* unsubscribed starts at totalUnsubscribed.
StatsSummary(daily, totalUnsubscribed) ==
    LET totals == [f \in Counters |->
                      SumField(daily, f, IF f = "unsubscribed" THEN totalUnsubscribed ELSE 0)]
    IN [sent |-> totals["sent"], delivered |-> totals["delivered"],
        opened |-> totals["opened"], clicked |-> totals["clicked"],
        bounced |-> totals["bounced"], spam |-> totals["spam"],
        unsubscribed |-> totals["unsubscribed"],
        openRate |-> calculateRate(totals["opened"], totals["delivered"]),
        clickRate |-> calculateRate(totals["clicked"], totals["delivered"]),
        bounceRate |-> calculateRate(totals["bounced"], totals["sent"])]

\* The summary of the "hybrid" handler, built from the overview endpoint.
HybridSummary(ov) ==
    [sent |-> ov.Sent, delivered |-> Max(0, ov.Sent - ov.Bounced),
     opened |-> ov.UniqueOpens, clicked |-> ov.UniqueLinksClicked,
     bounced |-> ov.Bounced, spam |-> ov.SpamComplaints,
     unsubscribed |-> 0,
     openRate |-> calculateRateOverview(ov.UniqueOpens, ov.Sent),
     clickRate |-> calculateRateOverview(ov.UniqueLinksClicked, ov.Sent),
     bounceRate |-> calculateRateOverview(ov.Bounced, ov.Sent)]

\* What /stats/outbound can report for the range.
Overviews == [Sent : 0..MaxCount, Bounced : 0..MaxCount, UniqueOpens : 0..MaxCount,
              UniqueLinksClicked : 0..MaxCount, SpamComplaints : 0..MaxCount]

NoSummary == [sent |-> 0, delivered |-> 0, opened |-> 0, clicked |-> 0, bounced |-> 0,
              spam |-> 0, unsubscribed |-> 0, openRate |-> Rat(0, 100),
              clickRate |-> Rat(0, 100), bounceRate |-> Rat(0, 100)]

\* The "stats" handler answers a request whose upstream fetches delivered
\* `series` and a suppression dump with `manual` ManualSuppression entries.
StatsHandler(manual) ==
    /\ merged.by = "none"
    /\ LET daily == StatsDaily(series, manual)
       IN merged' = [by |-> "stats", daily |-> daily, manual |-> manual,
                     summary |-> StatsSummary(daily, manual)]
    /\ UNCHANGED series

\* The "hybrid" handler answers a request on the same per-endpoint data and
\* the overview ov.
HybridHandler(ov) ==
    /\ merged.by = "none"
    /\ merged' = [by |-> "hybrid", daily |-> HybridDaily(series), manual |-> 0,
                  summary |-> HybridSummary(ov)]
    /\ UNCHANGED series

\* The next request arrives.
NextRequest ==
    /\ merged.by # "none"
    /\ merged' = [by |-> "none", daily |-> <<>>, manual |-> 0, summary |-> NoSummary]
    /\ UNCHANGED series

SeriesInputs == [Endpoints -> [Dates -> {Absent} \cup (0..MaxCount)]]
NoSeries == [e \in Endpoints |-> [d \in Dates |-> Absent]]
NotMerged == [by |-> "none", daily |-> <<>>, manual |-> 0, summary |-> NoSummary]

----------------------------------------------------------------------------
(* The daily series of the sales and ads services *)

\* A date string of an upstream row: calendar day `day` written as
\* "2025-06-13" (form "date"), "2025-06-13 14:46:08" (form "space") or
\* "2025-06-13T14:46:08" (form "T"); form "empty" is the empty string.
DateString(day, form) == [day |-> day, form |-> form]
\* date.split(' ')[0]
DatePart(ds) == IF ds.form = "space" THEN DateString(ds.day, "date") ELSE ds
\* new Date(date).getTime(), up to order: a date-only string is midnight, a
\* string with a time of day is later on the same day.
getTime(ds) == 2 * ds.day + (IF ds.form = "date" THEN 0 ELSE 1)

\* Array.prototype.sort((a, b) => getTime(a.date) - getTime(b.date)): stable.
RECURSIVE InsertByTime(_, _)
InsertByTime(sorted, row) ==
    IF sorted = <<>> THEN <<row>>
    ELSE IF getTime(row.date) < getTime(Head(sorted).date) THEN <<row>> \o sorted
    ELSE <<Head(sorted)>> \o InsertByTime(Tail(sorted), row)
RECURSIVE SortByTime(_)
SortByTime(rows) ==
    IF rows = <<>> THEN <<>>
    ELSE InsertByTime(SortByTime(SubSeq(rows, 1, Len(rows) - 1)), rows[Len(rows)])

\* The loop of ThriveCartService.calculateDailyStats over the transactions,
\* restricted to the purchase and upsell counts of a day.
RECURSIVE DailyStatsMap(_, _)
DailyStatsMap(m, transactions) ==
    IF transactions = <<>> THEN m
    ELSE LET t == Head(transactions)
             date == DatePart(t.date)
             i == MapIndex(m, date)
             m1 == IF i = 0 THEN Append(m, [date |-> date, purchases |-> 0, upsells |-> 0])
                   ELSE m
             j == MapIndex(m1, date)
             m2 == IF t.event = "purchase"
                   THEN [m1 EXCEPT ![j].purchases = @ + 1]
                   ELSE IF t.event = "upsellaccept"
                   THEN [m1 EXCEPT ![j].upsells = @ + 1]
                   ELSE m1
         IN IF t.date.form = "empty" THEN DailyStatsMap(m, Tail(transactions))
            ELSE DailyStatsMap(m2, Tail(transactions))

calculateDailyStats(transactions) == SortByTime(DailyStatsMap(<<>>, transactions))

\* dailyStats of FacebookAdsService.calculateStats: one row per insight,
\* sorted by date_start.
FacebookDailyStats(insights) ==
    SortByTime([i \in 1..Len(insights) |->
                   [date |-> insights[i].date_start, spend |-> insights[i].spend]])

SeqsUpTo(S, n) == UNION {[1..k -> S] : k \in 0..n}
Transactions ==
    [event : {"purchase", "upsellaccept", "abandon"},
     date : {DateString(d, f) : d \in Dates, f \in {"date", "space", "T"}}
            \cup {DateString(1, "empty")}]
Insights == [date_start : {DateString(d, "date") : d \in Dates}, spend : 0..MaxCount]

\* calculateDailyStats is applied to the transactions of a sheet.
CalculateDailyStats(transactions) ==
    /\ calc.op = "none"
    /\ calc' = [op |-> "calculateDailyStats", in |-> transactions,
                out |-> calculateDailyStats(transactions)]

\* FacebookAdsService.calculateStats is applied to an insights response.
FacebookCalculateStats(insights) ==
    /\ calc.op = "none"
    /\ calc' = [op |-> "facebookCalculateStats", in |-> insights,
                out |-> FacebookDailyStats(insights)]

\* No dateRange argument (undefined).
NoDateRange == [from |-> 0, to |-> 0]

\* ThriveCartService.filterTransactionsByDate.  parseISO of a string that is
\* not a date (form "garbage") is an Invalid Date, which is neither after,
\* before nor equal to anything; only a time of day written after a space is
\* cut off before parsing.
filterTransactionsByDate(transactions, dateRange) ==
    LET fromDate == getTime(DateString(dateRange.from, "date"))
        toDate == getTime(DateString(dateRange.to, "date"))
        kept(t) == /\ t.date.form # "empty"
                   /\ DatePart(t.date).form # "garbage"
                   /\ getTime(DatePart(t.date)) >= fromDate
                   /\ getTime(DatePart(t.date)) <= toDate
    IN IF dateRange = NoDateRange THEN transactions
       ELSE SelectSeq(transactions, kept)

\* filterTransactionsByDate is applied to the transactions of a sheet.
FilterTransactionsByDate(transactions, dateRange) ==
    /\ calc.op = "none"
    /\ calc' = [op |-> "filterTransactionsByDate",
                in |-> [transactions |-> transactions, dateRange |-> dateRange],
                out |-> filterTransactionsByDate(transactions, dateRange)]

\* Counter values the rate computations are applied to.
CounterValues == {0, 1, 2, 3, 50, 100, 300, 950, 1000}

\* Both calculateRate variants are applied to the same arguments.
CalculateRate(numerator, denominator) ==
    /\ calc.op = "none"
    /\ calc' = [op |-> "calculateRate",
                in |-> [numerator |-> numerator, denominator |-> denominator],
                out |-> [stats |-> calculateRate(numerator, denominator),
                         overview |-> calculateRateOverview(numerator, denominator)]]

\* The rates of ThriveCartService.calculateStats for the given totals.
ThriveCartRates(purchases, upsells, abandoned) ==
    /\ calc.op = "none"
    /\ calc' = [op |-> "thriveCartRates",
                in |-> [purchases |-> purchases, upsells |-> upsells,
                        abandoned |-> abandoned],
                out |-> [conversionRate |-> conversionRate(purchases, abandoned),
                         upsellConversionRate |-> upsellConversionRate(upsells, purchases)]]

\* combinedData of PostmarkMultiAPI.getCompleteStats, restricted to the
\* counters derived from the sends and bounces responses.
combinedData(sentStats, bounceStats) ==
    [Sent |-> sentStats.Sent,
     Delivered |-> sentStats.Sent - bounceStats.HardBounce - bounceStats.SoftBounce
                      - bounceStats.Transient,
     Bounced |-> bounceStats.HardBounce + bounceStats.SoftBounce + bounceStats.Transient]

BounceStats == [HardBounce : 0..MaxCount, SoftBounce : 0..MaxCount, Transient : 0..MaxCount]

\* PostmarkMultiAPI.getCompleteStats after its five requests resolved.
GetCompleteStats(sentStats, bounceStats) ==
    /\ calc.op = "none"
    /\ calc' = [op |-> "getCompleteStats",
                in |-> [sentStats |-> sentStats, bounceStats |-> bounceStats],
                out |-> combinedData(sentStats, bounceStats)]

\* A source of the dashboard state: null until loaded, then a stats object
\* of which `total` is totalRevenue (sales) or totalSpend (ads).
NotLoaded == [loaded |-> FALSE, total |-> Rat(0, 1)]
Loaded(q) == [loaded |-> TRUE, total |-> q]
\* source?.total || 0: null, undefined, 0 and NaN are falsy.
OrZero(src) ==
    IF ~src.loaded \/ src.total = NaN \/ src.total.num = 0 THEN 0 ELSE src.total.num

\* Mutant of roas: the spend is not tested before dividing.
roas_Unguarded(thrivecart, facebook) == Div(OrZero(thrivecart), OrZero(facebook))

\* roas of getUnifiedMetrics:
\* (facebook?.totalSpend || 0) > 0
\*    ? (thrivecart?.totalRevenue || 0) / (facebook?.totalSpend || 0) : 0
roas(thrivecart, facebook) ==
    IF OrZero(facebook) > 0 THEN Div(OrZero(thrivecart), OrZero(facebook)) ELSE Rat(0, 1)

\* What stats.thrivecart and stats.facebook can hold: totalRevenue is a sum
\* of parsed prices, totalSpend a sum of parseFloat results (NaN included).
SalesStates == {NotLoaded} \cup {Loaded(Rat(v, 1)) : v \in {0, 1, 500}}
AdsStates == {NotLoaded, Loaded(NaN)} \cup {Loaded(Rat(v, 1)) : v \in {0, 1, 3, 200}}

\* The dashboard renders: getUnifiedMetrics, restricted to roas.
GetUnifiedMetrics(thrivecart, facebook) ==
    /\ calc.op = "none"
    /\ calc' = [op |-> "getUnifiedMetrics",
                in |-> [thrivecart |-> thrivecart, facebook |-> facebook],
                out |-> [roas |-> roas(thrivecart, facebook)]]

\* The result has been consumed.
CalcDone ==
    /\ calc.op # "none"
    /\ calc' = NoCalc

----------------------------------------------------------------------------
(* The unified dashboard: fetchAllData *)

Sources == {"postmark", "thrivecart", "facebook"}

\* How one of the three requests of fetchAllData ends: the fetch rejects, the
\* response is not OK, its body cannot be read as JSON, the body says
\* success: false (email source only), or it carries data.
SourceOutcome(kind, v) == [kind |-> kind, data |-> Loaded(Rat(v, 1))]
SourceOutcomes(src) ==
    {SourceOutcome(k, 0) : k \in {"rejected", "notOk", "badJson"}
                               \cup (IF src = "postmark" THEN {"notSuccess"} ELSE {})}
    \cup {SourceOutcome("ok", v) : v \in 0..MaxCount}

DashInit == [stats |-> [s \in Sources |-> NotLoaded], error |-> "none",
             last |-> [s \in Sources |-> SourceOutcome("none", 0)]]

\* fetchAllData: the three requests settle with `outcome`, then the
\* responses are processed in the order email, sales, ads.  response.json()
\* throws on an unreadable body, which ends the try block before setStats.
FetchAllData(outcome) ==
    LET newStats == [s \in Sources |->
                        IF outcome[s].kind = "ok" THEN outcome[s].data ELSE NotLoaded]
        thrown == \E s \in Sources : outcome[s].kind = "badJson"
    IN dash' = IF thrown
               THEN [dash EXCEPT !.error = "Failed to load dashboard data",
                                 !.last = outcome]
               ELSE [stats |-> newStats, error |-> "none", last |-> outcome]

----------------------------------------------------------------------------
(* prisma.statSnapshot.upsert on the StatSnapshot table *)

Writers == 1..NumWriters
\* A writer between upserts, and a writer inside one: `seen` tells whether
\* the lookup by the compound key tag_date found a row.  `puts` records the
\* metrics written to every key, `refused` counts the creates the unique
\* index refused.
NoUpsert == [pc |-> "idle", tag |-> "overall", date |-> 1, sent |-> 0, seen |-> FALSE]
RowsOf(table, tag, date) == {r \in table : r.tag = tag /\ r.date = date}

UpsertsInit == [table |-> {}, w |-> [x \in Writers |-> NoUpsert],
                puts |-> [t \in Tags |-> [d \in Dates |-> {}]], started |-> 0,
                refused |-> 0]

\* Mutant of create: the table has no unique index on (tag, date).
create_NoUnique(table, tag, date, sent) ==
    [ok |-> TRUE,
     table |-> table \cup {[id |-> Cardinality(table) + 1, tag |-> tag,
                            date |-> date, sent |-> sent]}]

\* INSERT of the `create` payload: @@unique([tag, date]) makes the database
\* refuse a second row with the key.
create(table, tag, date, sent) ==
    IF RowsOf(table, tag, date) # {}
    THEN [ok |-> FALSE, table |-> table]
    ELSE [ok |-> TRUE,
          table |-> table \cup {[id |-> Cardinality(table) + 1, tag |-> tag,
                                 date |-> date, sent |-> sent]}]

\* UPDATE of the `update` payload where tag_date matches.
update(table, tag, date, sent) ==
    {IF r.tag = tag /\ r.date = date THEN [r EXCEPT !.sent = sent] ELSE r : r \in table}

\* upsert({where: {tag_date}, update, create}) starts: the row is looked up.
UpsertFind(x, tag, date, sent) ==
    /\ upserts.w[x].pc = "idle"
    /\ upserts.started < MaxUpserts
    /\ upserts' = [upserts EXCEPT
                      !.w[x] = [pc |-> "writing", tag |-> tag, date |-> date, sent |-> sent,
                                seen |-> RowsOf(upserts.table, tag, date) # {}],
                      !.puts[tag][date] = @ \cup {sent},
                      !.started = @ + 1]

\* The upsert writes: update when the lookup found the row, create otherwise.
\* A create refused by the unique index rejects the upsert.
UpsertWrite(x) ==
    LET u == upserts.w[x]
        c == create(upserts.table, u.tag, u.date, u.sent)
    IN /\ u.pc = "writing"
       /\ upserts' = IF u.seen
                     THEN [upserts EXCEPT !.table = update(@, u.tag, u.date, u.sent),
                                          !.w[x] = NoUpsert]
                     ELSE [upserts EXCEPT !.table = c.table,
                                          !.w[x] = NoUpsert,
                                          !.refused = IF c.ok THEN @ ELSE @ + 1]

----------------------------------------------------------------------------
(* The /api/facebook-ads handler and the FacebookAdsService singleton *)

Tokens == {"tokenA", "tokenB"}
\* Stats fetched with the access token `owner`; getEmptyStats has no owner.
AdsStats(owner) == [owner |-> owner]

NoAdsResponse == [status |-> 0, token |-> "none", key |-> "all", upstream |-> "none",
                  data |-> AdsStats("none")]
AdsInit == [instance |-> "none",
            cache |-> [k \in CacheKeys |-> [data |-> AdsStats("none"), timestamp |-> -1]],
            resp |-> NoAdsResponse]

\* FacebookAdsService.getInstance(accessToken): the token of the instance
\* afterwards.  An existing instance keeps the token it was built with.
getInstance(instance, accessToken) == IF instance = "none" THEN accessToken ELSE instance

\* FacebookAdsService.fetchData on the instance with access token `token`:
\* the value returned, the cache afterwards, and whether the Graph API was
\* asked.  `answer` is what the Graph API answers to the requests of this
\* fetchData: insights, the error with code 190 (the token could not be
\* decrypted), or no ad account.  Every error is caught inside fetchData.
AdsFetchData(token, adsCache, forceRefresh, key, answer, t) ==
    LET cached == adsCache[key]
    IN IF servesFromCache(forceRefresh, cached, t)
       THEN [data |-> cached.data, cache |-> adsCache, upstream |-> "none"]
       ELSE IF answer = "insights"
       THEN [data |-> AdsStats(token),
             cache |-> [adsCache EXCEPT ![key] = [data |-> AdsStats(token), timestamp |-> t]],
             upstream |-> answer]
       ELSE [data |-> IF HasEntry(cached) THEN cached.data ELSE AdsStats("none"),
             cache |-> adsCache, upstream |-> answer]

\* The handler serves one request: 400 without a token; otherwise getInstance,
\* fetchData and status 200 with what fetchData returned.  The catch block
\* mapping fbError to 401, 403 or 500 needs fetchData to throw.
AdsHandler(accessToken, method, key, answer) ==
    IF accessToken = "none"
    THEN ads' = [ads EXCEPT !.resp = [NoAdsResponse EXCEPT !.status = 400, !.key = key]]
    ELSE LET token == getInstance(ads.instance, accessToken)
             r == AdsFetchData(token, ads.cache, method = "POST", key, answer, now)
         IN ads' = [instance |-> token, cache |-> r.cache,
                    resp |-> [status |-> 200, token |-> accessToken, key |-> key,
                              upstream |-> r.upstream, data |-> r.data]]


PostmarkInit ==
    /\ rateLimitState = [requests |-> 0, windowStart |-> now, backoffUntil |-> 0]
    /\ pc = [c \in Calls |-> "idle"]
    /\ retries = [c \in Calls |-> 0]
    /\ wakeAt = [c \in Calls |-> 0]
    /\ result = [c \in Calls |-> NoError]
    /\ invocations = [c \in Calls |-> 0]
    /\ waits = [c \in Calls |-> <<>>]
    /\ errLog = [c \in Calls |-> <<>>]
    /\ httpLog = [c \in Calls |-> <<>>]
    /\ httpSent = 0
    /\ callsStarted = 0
    /\ last429At = -1
    /\ idled = FALSE

\* Everything freshly constructed, the database empty.
Fresh ==
    /\ now = 0
    /\ ticks = 0
    /\ PostmarkInit
    /\ CacheModelInit
    /\ EmailInit
    /\ merged = NotMerged
    /\ calc = NoCalc
    /\ dash = DashInit
    /\ upserts = UpsertsInit
    /\ ads = AdsInit

Init ==
    /\ series = NoSeries
    /\ Fresh
    /\ maxRequestsPerWindow \in {DefaultMaxRequests, LowMaxRequests}
    /\ service = "thrivecart"

InitCache ==
    /\ Fresh
    /\ series = NoSeries
    /\ maxRequestsPerWindow = DefaultMaxRequests
    /\ service \in Services

InitEmail ==
    /\ Fresh
    /\ series = NoSeries
    /\ maxRequestsPerWindow = DefaultMaxRequests
    /\ service = "thrivecart"

\* Spec uses the client sequentially: one getStatsWithRetry call at a time.
NoCallActive == \A c \in Calls : pc[c] \in {"idle", "resolved", "rejected"}

Next ==
    \/ (NoCallActive /\ StartCall(1) /\ UNCHANGED <<ticks, cacheVars, emailVars, mergeVars, calc, appVars>>)
    \/ \E c \in Calls : GetStatsCall(c) /\ UNCHANGED <<ticks, cacheVars, emailVars, mergeVars, calc, appVars>>
    \/ \E c \in Calls, o \in Outcomes : GetStatsResponse(c, o) /\ UNCHANGED <<ticks, cacheVars, emailVars, mergeVars, calc, appVars>>
    \/ \E c \in Calls : TimerFires(c) /\ UNCHANGED <<ticks, cacheVars, emailVars, mergeVars, calc, appVars>>
    \/ \E d \in IdleSteps : Idle(d) /\ UNCHANGED <<ticks, cacheVars, emailVars, mergeVars, calc, appVars>>

\* The PostmarkAPI client used by one caller at a time.
Spec == Init /\ [][Next]_vars

\* The sequential client whose pending steps (responses, timers, the
\* caller's next call) are eventually taken.
SpecLive == Init /\ [][Next]_vars /\ WF_vars(Next)

\* A client constructed with a small POSTMARK_RATE_LIMIT_REQUESTS.
InitConcurrent ==
    /\ Init
    /\ maxRequestsPerWindow = LowMaxRequests

NextConcurrent ==
    \/ \E c \in Calls : StartCall(c) /\ UNCHANGED <<ticks, cacheVars, emailVars, mergeVars, calc, appVars>>
    \/ \E c \in Calls : GetStatsCall(c) /\ UNCHANGED <<ticks, cacheVars, emailVars, mergeVars, calc, appVars>>
    \/ \E c \in Calls, o \in Outcomes : GetStatsResponse(c, o) /\ UNCHANGED <<ticks, cacheVars, emailVars, mergeVars, calc, appVars>>
    \/ \E c \in Calls : TimerFires(c) /\ UNCHANGED <<ticks, cacheVars, emailVars, mergeVars, calc, appVars>>

\* The PostmarkAPI client used by concurrent callers, as by the per-tag
\* fetches of the cached stats handler.
SpecConcurrent == InitConcurrent /\ [][NextConcurrent]_vars

NextCache ==
    \/ \E c \in FCalls, f \in BOOLEAN, k \in CacheKeys :
           FetchDataStart(c, f, k) /\ UNCHANGED <<pmVars, emailVars, mergeVars, calc, appVars>>
    \/ \E c \in FCalls : \E p \in Payloads(service) :
           FetchDataSuccess(c, p) /\ UNCHANGED <<pmVars, emailVars, mergeVars, calc, appVars>>
    \/ \E c \in FCalls : FetchDataFailure(c) /\ UNCHANGED <<pmVars, emailVars, mergeVars, calc, appVars>>
    \/ \E d \in CacheTicks : CacheTick(d) /\ UNCHANGED <<pmVars, emailVars, mergeVars, calc, appVars>>

\* The two in-memory cached services under concurrent requests.
SpecCache == InitCache /\ [][NextCache]_vars

NextEmail ==
    \/ \E refresh \in BOOLEAN, r \in DateRanges :
          \E overall \in FetchResults(r), tagged \in FetchResults(r) :
             CachedStatsHandler(refresh, r, overall, tagged) /\ UNCHANGED <<pmVars, cacheVars, mergeVars, calc, appVars>>
    \/ \E d \in EmailTicks : EmailTick(d) /\ UNCHANGED <<pmVars, cacheVars, mergeVars, calc, appVars>>

\* The Prisma-cached email stats handler serving requests one after another.
SpecEmail == InitEmail /\ [][NextEmail]_vars

NextTagged ==
    \/ \E refresh \in BOOLEAN, r \in DateRanges :
          \E overall \in FetchResults(r), tagged \in FetchResults(r) :
             CachedStatsHandler(refresh, r, overall, tagged) /\ UNCHANGED <<pmVars, cacheVars, mergeVars, calc, appVars>>
    \/ \E tags \in SUBSET Tags, r \in DateRanges :
          \E overall \in FetchResults(r), tagged \in FetchResults(r) :
             RefreshHandler(tags, overall, tagged) /\ UNCHANGED <<pmVars, cacheVars, mergeVars, calc, appVars>>

\* The Prisma-cached stats handler on a table that the refresh handler fills
\* with per-tag rows, all within one cache lifetime.
SpecTagged == InitEmail /\ [][NextTagged]_vars

InitMerge ==
    /\ Fresh
    /\ maxRequestsPerWindow = DefaultMaxRequests
    /\ service = "thrivecart"
    /\ series \in SeriesInputs

NextMerge ==
    \/ \E manual \in 0..MaxCount :
          StatsHandler(manual) /\ UNCHANGED <<now, ticks, pmVars, cacheVars, emailVars, calc, appVars>>
    \/ \E ov \in Overviews :
          HybridHandler(ov) /\ UNCHANGED <<now, ticks, pmVars, cacheVars, emailVars, calc, appVars>>
    \/ NextRequest /\ UNCHANGED <<now, ticks, pmVars, cacheVars, emailVars, calc, appVars>>

\* The daily merges applied to every combination of per-endpoint series.
SpecMerge == InitMerge /\ [][NextMerge]_vars

InitCalc ==
    /\ Fresh
    /\ series = NoSeries
    /\ maxRequestsPerWindow = DefaultMaxRequests
    /\ service = "thrivecart"

NextCalc ==
    \/ \E txs \in SeqsUpTo(Transactions, MaxRows) :
          CalculateDailyStats(txs) /\ UNCHANGED <<now, ticks, pmVars, cacheVars, emailVars, mergeVars, appVars>>
    \/ \E txs \in SeqsUpTo([event : {"purchase"},
                            date : {t.date : t \in Transactions}
                                   \cup {DateString(1, "garbage")}], MaxRows),
          dateRange \in DateRanges \cup {NoDateRange} :
          FilterTransactionsByDate(txs, dateRange) /\ UNCHANGED <<now, ticks, pmVars, cacheVars, emailVars, mergeVars, appVars>>
    \/ \E ins \in SeqsUpTo(Insights, MaxRows) :
          FacebookCalculateStats(ins) /\ UNCHANGED <<now, ticks, pmVars, cacheVars, emailVars, mergeVars, appVars>>
    \/ \E n \in CounterValues, d \in CounterValues :
          CalculateRate(n, d) /\ UNCHANGED <<now, ticks, pmVars, cacheVars, emailVars, mergeVars, appVars>>
    \/ \E p \in 0..MaxEvents, u \in 0..MaxEvents, a \in 0..MaxEvents :
          ThriveCartRates(p, u, a) /\ UNCHANGED <<now, ticks, pmVars, cacheVars, emailVars, mergeVars, appVars>>
    \/ \E sentStats \in [Sent : 0..MaxCount], bounceStats \in BounceStats :
          GetCompleteStats(sentStats, bounceStats) /\ UNCHANGED <<now, ticks, pmVars, cacheVars, emailVars, mergeVars, appVars>>
    \/ \E thrivecart \in SalesStates, facebook \in AdsStates :
          GetUnifiedMetrics(thrivecart, facebook) /\ UNCHANGED <<now, ticks, pmVars, cacheVars, emailVars, mergeVars, appVars>>
    \/ CalcDone /\ UNCHANGED <<now, ticks, pmVars, cacheVars, emailVars, mergeVars, appVars>>

\* The pure computations of the pipeline applied to bounded inputs.
SpecCalc == InitCalc /\ [][NextCalc]_vars

NextDash ==
    \E outcome \in [Sources -> UNION {SourceOutcomes(s) : s \in Sources}] :
        /\ \A s \in Sources : outcome[s] \in SourceOutcomes(s)
        /\ FetchAllData(outcome)
        /\ UNCHANGED <<now, ticks, pmVars, cacheVars, emailVars, mergeVars, calc, upserts, ads>>

\* The dashboard loading its three sources again and again.
SpecDash == InitCalc /\ [][NextDash]_vars

NextUpsert ==
    \/ \E x \in Writers, tag \in Tags, date \in Dates, sent \in 0..MaxCount :
          UpsertFind(x, tag, date, sent)
             /\ UNCHANGED <<now, ticks, pmVars, cacheVars, emailVars, mergeVars, calc, dash, ads>>
    \/ \E x \in Writers :
          UpsertWrite(x)
             /\ UNCHANGED <<now, ticks, pmVars, cacheVars, emailVars, mergeVars, calc, dash, ads>>

NextAds ==
    \/ \E accessToken \in Tokens \cup {"none"}, method \in {"GET", "POST"},
          key \in CacheKeys, answer \in {"insights", "code190", "noAdAccounts"} :
          AdsHandler(accessToken, method, key, answer)
             /\ UNCHANGED <<now, ticks, pmVars, cacheVars, emailVars, mergeVars, calc, dash, upserts>>
    \/ \E d \in CacheTicks :
          CacheTick(d) /\ UNCHANGED <<pmVars, cacheVars, emailVars, mergeVars, calc, appVars>>

\* The ads handler serving requests one after another.
SpecAds == InitCalc /\ [][NextAds]_vars

\* Upserts of the stats handlers running concurrently on one table.
SpecUpsert == InitCalc /\ [][NextUpsert]_vars

----------------------------------------------------------------------------
(* Properties of the caches *)

\* A step in which the cached stats handler served a request.
Handled == emailRequests' = emailRequests + 1
\* Rows of the requested range before the request was handled.
RowsBefore == findMany(snapshots, resp'.range, -1)
\* The upstream was contacted and the overall fetch failed.
FetchFailed == resp'.fetched /\ resp'.error # NoError

\* A row is stale when its age has reached the TTL.
Stale(row, t) == t - row.updatedAt >= EMAIL_TTL

\* C1: when no fresh entry is found and the re-fetch fails, the cached
\* (possibly stale) value of the range is returned whenever one exists; an
\* error is produced only when no cached value exists at all.  Stated for the
\* Prisma-cached handler, with and without the refresh flag, and for
\* failures other than rate limiting (C4 is about those).
C1_StaleServedOnFailure ==
    [][(/\ Handled
        /\ FetchFailed
        /\ ~isRateLimit(resp'.error)
        /\ \A k \in RowsBefore : Stale(snapshots[k[1]][k[2]], now))
          => IF RowsBefore # {}
             THEN resp'.status = 200 /\ resp'.sent = SumSent(snapshots, RowsBefore)
             ELSE resp'.status # 200]_vars

\* C2: a GET without the refresh flag triggers an upstream fetch whenever a
\* snapshot of the range is stale or a requested date has no snapshot, also
\* when other snapshots of the range are fresh.
C2_StaleOrMissingTriggersFetch ==
    [][(/\ Handled
        /\ ~resp'.refresh
        /\ \/ \E k \in RowsBefore : Stale(snapshots[k[1]][k[2]], now)
           \/ \E d \in Dates : /\ InRange(d, resp'.range)
                               /\ \A t \in Tags : ~Exists(snapshots[t][d]))
          => resp'.fetched]_vars

\* C3: an entry is served without contacting the upstream exactly when
\* now - updatedAt is strictly less than the TTL; at an age equal to the TTL
\* it is stale and re-fetched.  Stated for email requests whose range holds
\* a single snapshot.
C3_FreshIffYoungerThanTtl ==
    [][(Handled /\ ~resp'.refresh /\ Cardinality(RowsBefore) = 1)
          => \A k \in RowsBefore :
                (~resp'.fetched) <=> (now - snapshots[k[1]][k[2]].updatedAt < EMAIL_TTL)]_vars

\* C4: when the re-fetch fails with a rate-limit error and a snapshot of the
\* range exists, the handler responds successfully with the cached data; the
\* rate-limit error reaches the caller only when no snapshot exists.
C4_RateLimitServesSnapshot ==
    [][(Handled /\ FetchFailed /\ isRateLimit(resp'.error))
          => IF RowsBefore # {}
             THEN resp'.status = 200 /\ resp'.sent = SumSent(snapshots, RowsBefore)
             ELSE resp'.status # 200]_vars

\* C5: fetchData(forceRefresh = true) always issues an upstream fetch, even
\* over a fresh entry of the same key, and on success replaces the key's
\* entry with the newly computed stats; the freshness check decides only
\* when forceRefresh is false.
C5_ForceRefreshBypassesCache ==
    [][\A c \in FCalls :
          /\ (fcall[c].pc # "fetching" /\ fcallsStarted' = fcallsStarted + 1
                /\ fcall'[c] # fcall[c])
             => LET call == fcall'[c]
                    entry == cache[call.key]
                    fresh == HasEntry(entry) /\ now - entry.timestamp < CACHE_DURATION
                IN /\ call.forceRefresh => call.pc = "fetching"
                   /\ ~call.forceRefresh => (call.pc = "done" <=> fresh)
          /\ (fcall[c].pc = "fetching" /\ fcall'[c].path = "fetched")
             => /\ cache'[fcall[c].key].data = fcall'[c].result
                /\ cache'[fcall[c].key].timestamp = fcall[c].now
                /\ \E p \in Payloads(service) :
                      fcall'[c].result = calculateStats(service, p)]_vars

\* Witness of C5: a forced call that started over a fresh entry of its key
\* has fetched and replaced the entry.
C5_Witness ==
    \E c \in FCalls :
        /\ fcall[c].pc = "done"
        /\ fcall[c].forceRefresh
        /\ fcall[c].overFresh
        /\ fcall[c].path = "fetched"
        /\ cache[fcall[c].key].data = fcall[c].result

\* C17: every ThriveCartStats value returned by ThriveCartService.fetchData,
\* on every return path, that has totalPurchases = 0 and totalAbandoned = 0
\* has conversionRate = 100.
C17_EmptySalesConvertFully ==
    \A c \in FCalls :
        (/\ service = "thrivecart"
         /\ fcall[c].pc = "done"
         /\ fcall[c].result.totalPurchases = 0
         /\ fcall[c].result.totalAbandoned = 0)
        => fcall[c].result.conversionRate = Rat(100, 1)

\* Values that fetchData computed from a fetched sheet, or served from the
\* cache, have conversionRate = 100 when there are no purchases and no
\* abandons.
ComputedEmptySalesConvertFully ==
    \A c \in FCalls :
        (/\ service = "thrivecart"
         /\ fcall[c].pc = "done"
         /\ fcall[c].path # "empty"
         /\ fcall[c].result.totalPurchases = 0
         /\ fcall[c].result.totalAbandoned = 0)
        => fcall[c].result.conversionRate = Rat(100, 1)

----------------------------------------------------------------------------
(* Properties of getStatsWithRetry and the client's rate limiting *)

Statuses(log) == [i \in 1..Len(log) |-> log[i].status]

\* A failure the retry wrapper is specified to retry: a rate-limit failure
\* or an HTTP 5xx response.
IsTransient(e) ==
    \/ isRateLimit(e)
    \/ (e.kind = "ApiError" /\ e.n >= 500 /\ e.n <= 599)

\* C6: getStatsWithRetry retries only after an HTTP 429 or 5xx failure; any
\* other failure (a 4xx other than 429, a schema parse error) is propagated
\* after the first attempt, without a backoff delay or a further attempt.
\* Every error of a call that was followed by a setTimeout is transient.
C6_RetriesOnlyTransient ==
    \A c \in Calls : \A i \in 1..Len(waits[c]) : IsTransient(errLog[c][i])

\* C7: on a freshly constructed client, when the upstream answers the first
\* two HTTP requests with 429 and the third with success, the call resolves
\* after exactly 2 backoff delays and at most maxRetries attempts.
C7_TwoDelaysAfterTwo429 ==
    \A c \in Calls :
        (/\ pc[c] = "resolved"
         /\ callsStarted = 1
         /\ Statuses(httpLog[c]) = <<429, 429, 200>>)
        => (Len(waits[c]) = 2 /\ invocations[c] <= maxRetries)

IsPrefix(s, t) == Len(s) <= Len(t) /\ \A i \in 1..Len(s) : s[i] = t[i]

\* C8: getStatsWithRetry makes at most maxRetries + 1 = 4 getStats
\* invocations, waits 1000, 2000, 4000 ms before retry 0, 1, 2, and when
\* every invocation failed it rejects with the error of the last invocation.
C8_BoundedRetries ==
    \A c \in Calls :
        /\ invocations[c] <= maxRetries + 1
        /\ IsPrefix(waits[c], <<1000, 2000, 4000>>)
        /\ pc[c] = "rejected"
             => /\ Len(errLog[c]) = invocations[c]
                /\ Len(waits[c]) = invocations[c] - 1
                /\ result[c] = errLog[c][Len(errLog[c])]

\* Witness of C8: a call rejected after four failed invocations.
C8_Witness ==
    \E c \in Calls :
        /\ pc[c] = "rejected"
        /\ invocations[c] = 4
        /\ waits[c] = <<1000, 2000, 4000>>
        /\ errLog[c][1] # errLog[c][4]

\* C9: handling a 429 at time t records backoffUntil > t, and a getStats
\* call made before backoffUntil fails without an HTTP request and without
\* changing the request counter.
C9_BackoffFailsFast ==
    [][\A c \in Calls :
          /\ (pc[c] = "fetching" /\ Len(httpLog'[c]) > Len(httpLog[c])
                /\ httpLog'[c][Len(httpLog'[c])].status = 429)
             => rateLimitState'.backoffUntil > now'
          /\ (pc[c] = "calling" /\ pc'[c] # "calling"
                /\ now < rateLimitState.backoffUntil)
             => /\ pc'[c] \in {"sleeping", "rejected"}
                /\ httpSent' = httpSent
                /\ rateLimitState'.requests = rateLimitState.requests]_vars

\* Witness of C9: a getStats call failed fast inside the backoff period
\* that a 429 had opened.
C9_Witness ==
    \E c \in Calls :
        /\ Len(errLog[c]) >= 2
        /\ errLog[c][1].kind = "RateLimited"
        /\ errLog[c][2].kind = "BackoffWait"
        /\ now < rateLimitState.backoffUntil

\* C20: a single daily record with a missing or malformed numeric field
\* never makes the whole batch fail.  For PostmarkAPI.getStats: a call whose
\* last HTTP response was a 200 carrying a Days array resolves, whether or
\* not one of the Days entries is malformed.
C20_MalformedDayTolerated ==
    \A c \in Calls :
        (/\ pc[c] \in {"resolved", "rejected"}
         /\ httpLog[c] # <<>>
         /\ httpLog[c][Len(httpLog[c])].status = 200
         /\ httpLog[c][Len(httpLog[c])].body \in {"valid", "badDays"})
        => pc[c] = "resolved"

----------------------------------------------------------------------------
(* Properties of the daily merges *)

DatesOf(rows) == {rows[i].date : i \in 1..Len(rows)}
\* Dates on which one of the given endpoints reported a day.
DatesIn(s, eps) == {d \in Dates : \E e \in eps : s[e][d] # Absent}
\* The per-endpoint series a handler merges.
MergedEndpoints(by) == IF by = "hybrid" THEN {"sends", "opens", "clicks", "bounces"}
                       ELSE Endpoints

\* C10: the daily series an email stats handler returns has a row for every
\* date that appears in any of the per-endpoint series it merges, and for no
\* other date.
C10_DateUnion ==
    merged.by # "none"
       => DatesOf(merged.daily) = DatesIn(series, MergedEndpoints(merged.by))

\* The orders in which the five merge steps can be applied.
StepOrders == {o \in [1..5 -> Endpoints] : \A i, j \in 1..5 : i # j => o[i] # o[j]}

\* C11: the merged daily rows do not depend on the order in which the
\* per-endpoint series are folded into the date map: the sends, bounces,
\* spam, opens and clicks steps applied in any permutation yield the rows the
\* "stats" handler returned.
C11_MergeOrderIndependent ==
    merged.by = "stats"
       => \A o \in StepOrders :
             SortByDate(WithDelivered(WithUnsubscribed(FoldSteps(<<>>, series, o),
                                                       merged.manual)))
                = merged.daily

\* C12: in every successful email stats response each summary counter (sent,
\* delivered, opened, clicked, bounced, spam, unsubscribed) equals the sum of
\* that counter over the rows of the daily series of the same response.
C12_SummaryIsSumOfDaily ==
    merged.by # "none"
       => \A f \in Counters : Counter(merged.summary, f) = SumField(merged.daily, f, 0)

\* The "stats" handler's summary counters other than unsubscribed are the
\* sums over its daily rows.
StatsSummaryButUnsubscribed ==
    merged.by = "stats"
       => \A f \in Counters \ {"unsubscribed"} :
             Counter(merged.summary, f) = SumField(merged.daily, f, 0)

\* The rates of a summary are the rates of its own counters.
RatesFromCounters(sm) ==
    /\ sm.openRate = calculateRate(sm.opened, sm.delivered)
    /\ sm.clickRate = calculateRate(sm.clicked, sm.delivered)
    /\ sm.bounceRate = calculateRate(sm.bounced, sm.sent)

\* C14: in every email stats summary openRate = rate(opened, delivered),
\* clickRate = rate(clicked, delivered) and bounceRate = rate(bounced, sent),
\* computed from the counters of that same summary.
C14_RatesFromSummaryCounters ==
    merged.by # "none" => RatesFromCounters(merged.summary)

\* The "stats" handler's summary has the rates of its own counters.
StatsRatesFromCounters ==
    merged.by = "stats" => RatesFromCounters(merged.summary)

----------------------------------------------------------------------------
(* Properties of the pure computations *)

\* The rows are strictly ascending by calendar day.
StrictlyAscending(days) == \A i \in 1..(Len(days) - 1) : days[i] < days[i + 1]

\* C13: every daily series the pipeline produces (the email merge,
\* ThriveCartService.calculateDailyStats, FacebookAdsService.calculateStats)
\* is strictly ascending by calendar date, so no calendar date appears in
\* more than one row, for every upstream payload.
C13_DailySeriesAscending ==
    calc.op \in {"calculateDailyStats", "facebookCalculateStats"}
       => StrictlyAscending([i \in 1..Len(calc.out) |-> calc.out[i].date.day])

\* The daily series of the email merges are strictly ascending by date.
EmailDailyAscending ==
    merged.by # "none"
       => StrictlyAscending([i \in 1..Len(merged.daily) |-> merged.daily[i].date])

\* calculateDailyStats is strictly ascending on sheets whose dates are all
\* written as "YYYY-MM-DD" or "YYYY-MM-DD hh:mm:ss".
ThriveCartAscendingOnPlainDates ==
    (/\ calc.op = "calculateDailyStats"
     /\ \A i \in 1..Len(calc.in) : calc.in[i].date.form \in {"date", "space"})
       => StrictlyAscending([i \in 1..Len(calc.out) |-> calc.out[i].date.day])

\* C15: for every numerator and a denominator equal to 0 every
\* calculateRate variant returns exactly 0, and for no pair of non-negative
\* integer inputs does a variant return NaN or Infinity.
C15_RateZeroDenominator ==
    calc.op = "calculateRate"
       => /\ IsFinite(calc.out.stats) /\ IsFinite(calc.out.overview)
          /\ calc.in.denominator = 0
                => calc.out.stats.num = 0 /\ calc.out.overview.num = 0

\* Witness of C15: a variant was applied to a positive numerator and a zero
\* denominator and returned 0.
C15_Witness ==
    /\ calc.op = "calculateRate"
    /\ calc.in.numerator > 0 /\ calc.in.denominator = 0
    /\ calc.out.stats = Rat(0, 100) /\ calc.out.overview = Rat(0, 100)

\* A finite value that is an exact multiple of 0.01.
IsHundredth(q) == IsFinite(q) /\ (q.num * 100) % q.den = 0
\* n / d * 100 rounded half-up to two decimal places.
RoundHalfUp(n, d) == Rat((2 * n * 10000 + d) \div (2 * d), 100)
SameValue(p, q) == p.num * q.den = q.num * p.den

\* C16: every percentage rate the pipeline reports (openRate, clickRate,
\* bounceRate, conversionRate, upsellConversionRate) is numerator /
\* denominator * 100 rounded half-up to two decimal places, hence an exact
\* multiple of 0.01.
C16_RatesRoundedToHundredths ==
    /\ (calc.op = "calculateRate" /\ calc.in.denominator > 0)
          => /\ calc.out.stats = RoundHalfUp(calc.in.numerator, calc.in.denominator)
             /\ calc.out.overview = RoundHalfUp(calc.in.numerator, calc.in.denominator)
    /\ calc.op = "thriveCartRates"
          => /\ IsHundredth(calc.out.conversionRate)
             /\ IsHundredth(calc.out.upsellConversionRate)
             /\ calc.in.abandoned > 0
                   => SameValue(calc.out.conversionRate,
                                RoundHalfUp(calc.in.purchases,
                                            calc.in.purchases + calc.in.abandoned))

\* C18: every delivered count the pipeline derives from sent and bounce
\* counts equals max(0, sent - bounced) and is never negative, in
\* PostmarkMultiAPI.getCompleteStats as in the stats handlers.
C18_DeliveredNeverNegative ==
    calc.op = "getCompleteStats"
       => /\ calc.out.Delivered >= 0
          /\ calc.out.Delivered = Max(0, calc.out.Sent - calc.out.Bounced)

\* The delivered counts of the "stats" and "hybrid" handlers, per day and in
\* the hybrid summary, are max(0, sent - bounced).
HandlersDeliveredClamped ==
    /\ \A i \in 1..Len(merged.daily) :
          merged.daily[i].delivered = Max(0, merged.daily[i].sent - merged.daily[i].bounced)
    /\ merged.by = "hybrid"
          => merged.summary.delivered = Max(0, merged.summary.sent - merged.summary.bounced)

\* The finite positive spend of a loaded ads source.
HasSpend(src) == src.loaded /\ IsFinite(src.total) /\ src.total.num > 0

\* C19: the unified dashboard's ROAS equals revenue / spend when ad spend is
\* positive and exactly 0 otherwise, also when the sales or the ads source
\* failed to load and is null, and it is never NaN or Infinity.
C19_RoasGuarded ==
    calc.op = "getUnifiedMetrics"
       => LET revenue == IF calc.in.thrivecart.loaded THEN calc.in.thrivecart.total.num ELSE 0
          IN /\ IsFinite(calc.out.roas)
             /\ IF HasSpend(calc.in.facebook)
                THEN calc.out.roas = Rat(revenue, calc.in.facebook.total.num)
                ELSE calc.out.roas = Rat(0, 1)

\* Witness of C19: revenue was loaded, no spend was (null ads source or a
\* spend of 0), and the ROAS rendered is 0.
C19_Witness ==
    /\ calc.op = "getUnifiedMetrics"
    /\ calc.in.thrivecart = Loaded(Rat(500, 1))
    /\ ~HasSpend(calc.in.facebook)
    /\ calc.out.roas = Rat(0, 1)

----------------------------------------------------------------------------
(* Properties of the dashboard *)

FailedKinds == {"rejected", "notOk", "badJson"}

\* C21: in the unified dashboard a failure of any one of the three source
\* requests (rejected fetch, non-OK status, or a body that cannot be read as
\* JSON) leaves the data of the other two sources in the resulting state and
\* shows zeros (no data) for the failed source.
C21_SourceFailureIsolated ==
    \A f \in Sources :
        (/\ dash.last[f].kind \in FailedKinds
         /\ \A s \in Sources \ {f} : dash.last[s].kind = "ok")
        => /\ dash.stats[f] = NotLoaded
           /\ \A s \in Sources \ {f} : dash.stats[s] = dash.last[s].data

\* A rejected fetch or a non-OK status of one source leaves the data of the
\* other two in the state.
RejectedOrNotOkIsolated ==
    \A f \in Sources :
        (/\ dash.last[f].kind \in {"rejected", "notOk"}
         /\ \A s \in Sources \ {f} : dash.last[s].kind = "ok")
        => /\ dash.stats[f] = NotLoaded
           /\ \A s \in Sources \ {f} : dash.stats[s] = dash.last[s].data

----------------------------------------------------------------------------
(* Properties of the error messages of PostmarkAPI.getStats *)

\* The error getStats threw for the latest HTTP response of call c: the last
\* logged error that checkRateLimit did not throw.
RECURSIVE LastResponseError(_)
LastResponseError(log) ==
    IF log = <<>> THEN NoError
    ELSE IF log[Len(log)].kind \in {"BackoffWait", "LimitExceeded"}
    THEN LastResponseError(SubSeq(log, 1, Len(log) - 1))
    ELSE log[Len(log)]

\* C22: for a non-OK, non-429 response whose body is a Postmark error object
\* {ErrorCode, Message}, getStats rejects with the message
\* 'Postmark API error: <Message> (<ErrorCode>)' (kind "MessageAndCode", the
\* number being the ErrorCode), not with the status and status text.
C22_ErrorCarriesMessageAndCode ==
    \A c \in Calls :
        (/\ httpLog[c] # <<>>
         /\ httpLog[c][Len(httpLog[c])].status \notin {200, 429}
         /\ httpLog[c][Len(httpLog[c])].body = "error"
         /\ pc[c] # "fetching")
        => LastResponseError(errLog[c])
              = Err("MessageAndCode", httpLog[c][Len(httpLog[c])].status)

\* What getStats does throw for such a response: 'Postmark API error:
\* <status> <statusText>'.
ErrorCarriesStatusAndText ==
    \A c \in Calls :
        (/\ httpLog[c] # <<>>
         /\ httpLog[c][Len(httpLog[c])].status \notin {200, 429}
         /\ pc[c] # "fetching")
        => LastResponseError(errLog[c])
              = Err("ApiError", httpLog[c][Len(httpLog[c])].status)

----------------------------------------------------------------------------
(* Properties of the StatSnapshot upserts *)

\* C23: writing the same (tag, date, metric) any number of times, in any
\* interleaving with writes to other keys, leaves exactly one row for that
\* (tag, date) holding that metric, and no sequence of upserts ever produces
\* two rows with the same (tag, date).
C23_UpsertIdempotent ==
    /\ \A r1 \in upserts.table, r2 \in upserts.table :
          (r1.tag = r2.tag /\ r1.date = r2.date) => r1 = r2
    /\ \A t \in Tags, d \in Dates, m \in 0..MaxCount :
          (/\ upserts.puts[t][d] = {m}
           /\ \A x \in Writers : ~(/\ upserts.w[x].pc = "writing"
                                   /\ upserts.w[x].tag = t /\ upserts.w[x].date = d))
          => \E r \in upserts.table :
                RowsOf(upserts.table, t, d) = {r} /\ r.sent = m

\* Witness of C23: upserts of one (tag, date, metric) looked the row up
\* before any of them wrote, so that a create was refused; another key was
\* written too; every upsert has finished and the table holds one row for
\* the key.
C23_Witness ==
    /\ upserts.started = MaxUpserts
    /\ upserts.refused > 0
    /\ \A x \in Writers : upserts.w[x].pc = "idle"
    /\ upserts.puts["overall"][1] = {1}
    /\ upserts.puts["promo"][1] # {}
    /\ Cardinality(RowsOf(upserts.table, "overall", 1)) = 1
    /\ Cardinality(upserts.table) = 2

----------------------------------------------------------------------------
(* Properties of the ThriveCart date filter *)

\* The transactions of txs whose date has one of the forms `forms` and whose
\* calendar day lies in the range r, both bounds included.
InRangeOnCalendar(txs, r, forms) ==
    LET inside(t) == t.date.form \in forms /\ InRange(t.date.day, r)
    IN SelectSeq(txs, inside)

\* C24: with a date range given, ThriveCartService keeps exactly the
\* transactions whose calendar date d satisfies from <= d <= to (both bounds
\* inclusive, time of day ignored) and drops transactions with an empty or
\* unparseable date; with no range it keeps every transaction.
C24_FilterInclusiveByCalendarDate ==
    calc.op = "filterTransactionsByDate"
       => calc.out = IF calc.in.dateRange = NoDateRange
                     THEN calc.in.transactions
                     ELSE InRangeOnCalendar(calc.in.transactions, calc.in.dateRange,
                                            {"date", "space", "T"})

\* When no date is written with a "T" before the time of day, the filter
\* keeps exactly the transactions of the range.
FilterExactWithoutTForm ==
    (/\ calc.op = "filterTransactionsByDate"
     /\ \A i \in 1..Len(calc.in.transactions) : calc.in.transactions[i].date.form # "T")
       => calc.out = IF calc.in.dateRange = NoDateRange
                     THEN calc.in.transactions
                     ELSE InRangeOnCalendar(calc.in.transactions, calc.in.dateRange,
                                            {"date", "space"})

----------------------------------------------------------------------------
(* Properties of the ads handler *)

\* C25: when the ads platform rejects the access token (Graph API error code
\* 190), the /api/facebook-ads request ends with HTTP status 401 and an
\* error payload, and does not end with a 200 response.
C25_RejectedTokenAnswers401 ==
    ads.resp.upstream = "code190" => ads.resp.status = 401

\* What the handler answers: 400 without a token and 200 otherwise, whatever
\* the Graph API said.
AdsAnswers200Or400 ==
    /\ ads.resp.status \in {0, 200, 400}
    /\ ads.resp.upstream # "none" => ads.resp.status = 200

\* C28: the ads stats returned for a request are determined only by that
\* request's own access token and date range: a request never receives data
\* that was fetched with, or cached under, another request's token.
C28_StatsOfOwnToken ==
    (ads.resp.status = 200 /\ ads.resp.data.owner # "none")
       => ads.resp.data.owner = ads.resp.token

\* The stats returned are those of the token the singleton was built with.
StatsOfFirstToken ==
    (ads.resp.status = 200 /\ ads.resp.data.owner # "none")
       => ads.resp.data.owner = ads.instance

----------------------------------------------------------------------------
(* Properties of the PostmarkAPI client under concurrent calls *)

\* C26: on one PostmarkAPI client the number of HTTP requests issued since
\* the current windowStart never exceeds maxRequestsPerWindow, for every
\* interleaving of concurrent getStats calls.  Stated for the window the
\* client was constructed in, whose requests httpSent counts.
C26_RequestsWithinWindowLimit ==
    rateLimitState.windowStart = 0 => httpSent <= maxRequestsPerWindow

----------------------------------------------------------------------------
(* Properties of the in-memory caches under concurrent fetches *)

\* C27: for every interleaving of concurrent fetchData calls on the same
\* cache key, the key's entry is never overwritten by the result of a fetch
\* that started earlier than the fetch whose result it holds: the entry's
\* timestamp never decreases.
C27_TimestampNeverDecreases ==
    [][\A k \in CacheKeys :
          HasEntry(cache[k]) => cache'[k].timestamp >= cache[k].timestamp]_vars

\* An entry, once written, is never removed, and a fetch writes the time it
\* started at, never a later one.
EntryKeptAndStampedAtStart ==
    [][\A k \in CacheKeys :
          /\ HasEntry(cache[k]) => HasEntry(cache'[k])
          /\ cache'[k] # cache[k] => cache'[k].timestamp <= now]_vars

----------------------------------------------------------------------------
(* Progress of getStatsWithRetry after a 429 *)

\* The first attempt of call c received a 429 and the call waits to retry;
\* the window's request limit is not reached.
FirstAttemptRateLimited(c) ==
    /\ pc[c] = "sleeping"
    /\ Len(errLog[c]) = 1 /\ errLog[c][1].kind = "RateLimited"
    /\ Len(httpLog[c]) = 1
    /\ rateLimitState.requests < maxRequestsPerWindow
\* The upstream answered every HTTP request after the first successfully.
LaterRequestsAnswered(c) ==
    \A i \in 2..Len(httpLog[c]) : httpLog[c][i] = Outcome(200, "valid", 0)

\* C29: if the first attempt of getStatsWithRetry receives a 429 and the
\* upstream answers every later HTTP request successfully, the call
\* eventually returns the successful result, whatever the client's request
\* count in the current window was when the 429 arrived.
C29_RecoversAfter429 ==
    \A c \in Calls :
        FirstAttemptRateLimited(c) ~> (pc[c] = "resolved" \/ ~LaterRequestsAnswered(c))

\* A call whose only HTTP request was the 429 is rejected inside the backoff
\* period only when the 429 arrived with three or more requests counted, so
\* that the backoff (8 s or more) outlasts the retries (1 s + 2 s + 4 s).
GivesUpOnlyOnLongBackoff ==
    \A c \in Calls :
        (/\ pc[c] = "rejected" /\ result[c].kind = "BackoffWait"
         /\ errLog[c][1].kind = "RateLimited" /\ Len(httpLog[c]) = 1)
        => rateLimitState.backoffUntil - last429At >= 8 * baseBackoffMs

----------------------------------------------------------------------------
(* Properties of the cached handler's aggregation over tags *)

\* The rows of table in the range r that carry the tag 'overall'.
OverallRows(table, r) == {k \in findMany(table, r, -1) : k[1] = "overall"}
\* Some date of the range r has a row for 'overall' and a row for another tag.
BothTagsOnADate(table, r) ==
    \E d \in Dates : /\ InRange(d, r)
                     /\ Exists(table["overall"][d]) /\ Exists(table["promo"][d])

\* C30: in the Prisma-cached email stats handler the summary and each daily
\* row count every email once: when snapshots exist on a date for both the
\* 'overall' tag and individual tags, summary.sent and the daily rows equal
\* the 'overall' totals of the range, not 'overall' plus the per-tag totals.
C30_EveryEmailCountedOnce ==
    [][(/\ Handled
        /\ resp'.status = 200
        /\ BothTagsOnADate(snapshots', resp'.range))
       => /\ resp'.sent = SumSent(snapshots', OverallRows(snapshots', resp'.range))
          /\ resp'.daily = DailyFrom(snapshots', OverallRows(snapshots', resp'.range), 1)]_vars

\* What the handler reports: the sum over every row of the range, whatever
\* its tag.
SummarySumsEveryRow ==
    [][(Handled /\ resp'.status = 200)
       => /\ resp'.sent = SumSent(snapshots', findMany(snapshots', resp'.range, -1))
          /\ resp'.daily = DailyFrom(snapshots', findMany(snapshots', resp'.range, -1), 1)]_vars

====
